---- MODULE Spec2Model ----
(***************************************************************************)
(* EventExportService (src/services/events/EventExportService.ts): the     *)
(* export of events with their tracked entity instances and enrollments.   *)
(* One behaviour is one call of an export: the fan-out queries, the by-uid *)
(* backfill and, for the zip variants, the nested archive.  The pure       *)
(* helpers of the service are operators, checked under specifications of   *)
(* their own that draw the arguments from bounded sets.                    *)
(***************************************************************************)
EXTENDS Naturals, Sequences, FiniteSets

\* ------------------------------------------------------------ bounds

\* Longest org-unit list and program list of one export call, and the most
\* (org-unit, program) combinations their product may have.
MaxOrgunits == 2
MaxPrograms == 2
MaxQueries == 2
\* Argument sizes of the pure helpers, checked on their own.
MaxComboOrgunits == 3
MaxComboPrograms == 2
MaxExtractEvents == 3

\* ------------------------------------------------------------ values

\* JavaScript's undefined and null: an absent property reads as undefined,
\* an explicit JSON null as null.
Undefined == "<undefined>"
Null == "<null>"

\* The identifiers in use.  The service never compares org-unit or program
\* ids, it only passes them on, so a call's lists are taken as the first n
\* of these.
OrgunitIds == <<"A", "B", "C", "D">>
ProgramIds == <<"P1", "P2", "P3", "P4">>
TeiIds == {"t1", "t2"}
EnrollIds == {"e1", "e2"}

\* model.Orgunit and model.Program: the service reads only their id.
Orgunit == {[id |-> OrgunitIds[i]] : i \in 1..Len(OrgunitIds)}
Program == {[id |-> ProgramIds[i]] : i \in 1..Len(ProgramIds)}

\* The optional `programs` argument: supplied or not, and the array if so.
Supplied(list) == [supplied |-> TRUE, list |-> list]
NotSupplied == [supplied |-> FALSE, list |-> <<>>]

RECURSIVE SeqsUpTo(_, _)
SeqsUpTo(S, n) ==
    IF n = 0 THEN {<<>>}
    ELSE LET shorter == SeqsUpTo(S, n - 1)
         IN  shorter \cup {Append(s, x) : s \in shorter, x \in S}

RECURSIVE Flatten(_)
Flatten(ss) == IF ss = <<>> THEN <<>> ELSE Head(ss) \o Flatten(Tail(ss))

Range(s) == {s[i] : i \in 1..Len(s)}

\* ------------------------------------------------------------ helpers

OrgunitProgramComboItem(orgUnit, program) ==
    [orgUnit |-> orgUnit, program |-> program]

\* A plausible slip: program-major instead of org-unit-major nesting.
getOrgunitProgramComboProgramMajor(orgunits, programs) ==
    IF programs.supplied /\ Len(programs.list) > 0
    THEN Flatten([j \in 1..Len(programs.list) |->
                    [i \in 1..Len(orgunits) |->
                        OrgunitProgramComboItem(orgunits[i].id, programs.list[j].id)]])
    ELSE [i \in 1..Len(orgunits) |-> OrgunitProgramComboItem(orgunits[i].id, Undefined)]

\* orgunits.forEach: one item per program when programs is a non-empty
\* array, else one item with no program.
getOrgunitProgramCombo(orgunits, programs) ==
    Flatten([i \in 1..Len(orgunits) |->
        IF programs.supplied /\ Len(programs.list) > 0
        THEN [j \in 1..Len(programs.list) |->
                OrgunitProgramComboItem(orgunits[i].id, programs.list[j].id)]
        ELSE <<OrgunitProgramComboItem(orgunits[i].id, Undefined)>>])

\* The key under which a value is stored in the object `u`: property names
\* are strings, so null is stored as "null" and a string as itself.
PropertyKey(v) == IF v = Null THEN "null" ELSE v

\* The for loop of getUniqueInArray: u is the set of own property names of
\* the object, a the output array.
RECURSIVE getUniqueLoop(_, _, _, _)
getUniqueLoop(array, i, u, a) ==
    IF i > Len(array) THEN a
    ELSE IF array[i] = Undefined \/ PropertyKey(array[i]) \in u
         THEN getUniqueLoop(array, i + 1, u, a)
         ELSE getUniqueLoop(array, i + 1, u \cup {PropertyKey(array[i])},
                            Append(a, array[i]))

getUniqueInArray(array) == getUniqueLoop(array, 1, {}, <<>>)

\* event[property] for the two properties the service reads.
EventProperty(event, property) ==
    IF property = "trackedEntityInstance" THEN event.trackedEntityInstance
    ELSE event.enrollment

extractEventsPropertyToArray(events, property) ==
    getUniqueInArray([i \in 1..Len(events) |-> EventProperty(events[i], property)])

\* ------------------------------------------------------------ server

\* What the remote endpoints may answer.  An event carries the two foreign
\* keys the service reads; each may be absent (undefined) or null.
ServerEvent ==
    [trackedEntityInstance : {Undefined, Null, "t1", "t2"},
     enrollment : {Undefined, Null, "e1"}]

\* An entity as it sits in a list response: plain data.
TeiEntity(id) == [trackedEntityInstance |-> id, resource |-> FALSE]
EnrollEntity(id) == [enrollment |-> id, resource |-> FALSE]

\* A by-uid answer is the resource object itself: the entity's fields plus
\* the $promise/$resolved bookkeeping of the resource.
TeiResource(id) == [trackedEntityInstance |-> id, resource |-> TRUE]
EnrollResource(id) == [enrollment |-> id, resource |-> TRUE]

\* The answers to one fan-out query: an array of at most one element.
EventsResponses == {<<>>} \cup {<<e>> : e \in ServerEvent}
TeisResponses == {<<>>, <<TeiEntity("t1")>>}
EnrollsResponses == {<<>>, <<EnrollEntity("e1")>>}

\* The answer to a by-uid request: the entity with that identifier; for a
\* uid that is no identifier (null) an object without one.
TeiByUidResponses(uid) ==
    {<<TeiResource(IF uid \in TeiIds THEN uid ELSE Undefined)>>}
EnrollByUidResponses(uid) ==
    {<<EnrollResource(IF uid \in EnrollIds THEN uid ELSE Undefined)>>}

\* ------------------------------------------------------------ requests

StartDate == "2016-01-01"
EndDate == "2016-12-31"
LastUpdated == "2016-06-30"

ParamNames ==
    {"startDate", "endDate", "lastUpdated", "ouMode", "ou", "orgUnit", "program", "uid"}
NoParams == [k \in ParamNames |-> Undefined]

\* angular.extend(dst, src): every own property of src is copied over dst.
Extend(dst, src) ==
    [k \in ParamNames |-> IF k \in DOMAIN src THEN src[k] ELSE dst[k]]

\* A plausible slip: the event query built like the tracked-entity one.
EventsQueryParamsAsOu(commonParams, customParams) ==
    Extend(Extend(NoParams, commonParams),
           [ou |-> customParams.orgUnit, program |-> customParams.program])

\* angular.extend({}, commonParams, customParams) with the combo item itself
\* as customParams: its properties are orgUnit and program.
EventsQueryParams(commonParams, customParams) ==
    Extend(Extend(NoParams, commonParams), customParams)

\* angular.extend({}, commonParams, {ou: combination.orgUnit, program: combination.program})
EntityQueryParams(commonParams, combination) ==
    Extend(Extend(NoParams, commonParams),
           [ou |-> combination.orgUnit, program |-> combination.program])

UidParams(uid) == Extend(NoParams, [uid |-> uid])

\* A request in flight or settled: the batch (the $q.all) it belongs to, the
\* resource it was issued on, its parameters, and its answer once it came.
NewRequest(batch, resource, params) ==
    [batch |-> batch, resource |-> resource, params |-> params,
     status |-> "pending", data |-> <<>>]

\* The requests of one batch, in the order they were issued: the order of
\* the promise array handed to $q.all, hence of its result array.
Batch(reqs, batch) == SelectSeq(reqs, LAMBDA r : r.batch = batch)
BatchData(reqs, batch) == LET b == Batch(reqs, batch) IN [i \in 1..Len(b) |-> b[i].data]
AllOk(reqs, batches) ==
    \A i \in 1..Len(reqs) : reqs[i].batch \in batches => reqs[i].status = "ok"

\* ------------------------------------------------------------ lists

\* A plausible slip: the reduce prepends each result instead of appending it.
ConcatResultsReversed(resultsArray) ==
    Flatten([i \in 1..Len(resultsArray) |-> resultsArray[Len(resultsArray) + 1 - i]])

\* The reduce of getEventsFromOrgunitAndPrograms, getTrackedEntityInstancesFromLast
\* and getEnrollmentsFromLast: total.concat(current) from the empty list on.
ConcatResults(resultsArray) == Flatten(resultsArray)

\* JSON.parse(angular.toJson(response)): the data without the resource's
\* own bookkeeping.
cleanResponse(response) == [response EXCEPT !.resource = FALSE]

\* The reduce of getTrackedEntityInstancesByUid and getEnrollmentsByUid: each
\* answer is cleaned and pushed.
CleanAll(responses) == [i \in 1..Len(responses) |-> cleanResponse(responses[i][1])]

EventDataWrapper(events, enrollments, trackedEntityInstances) ==
    [events |-> events, enrollments |-> enrollments,
     trackedEntityInstances |-> trackedEntityInstances]

addTrackedEntityInstances(dw, trackedEntityInstances) ==
    [dw EXCEPT !.trackedEntityInstances = @ \o trackedEntityInstances]

\* A plausible slip: assignment instead of concat, losing what was there.
addEnrollmentsOverwrite(dw, enrollments) == [dw EXCEPT !.enrollments = enrollments]

addEnrollments(dw, enrollments) == [dw EXCEPT !.enrollments = @ \o enrollments]

\* A plausible slip: the filter keeps the identifiers that are present.
MissingInverted(related, existing) ==
    SelectSeq(related, LAMBDA id : \E i \in 1..Len(existing) : existing[i] = id)

\* related.filter(id => existing.indexOf(id) < 0)
Missing(related, existing) ==
    SelectSeq(related, LAMBDA id : ~ \E i \in 1..Len(existing) : existing[i] = id)

\* ------------------------------------------------------------ archive

\* The names EventHelper owns: the bundle's property names and the member
\* names of the archives.
EVENTS == "events"
TEIS == "trackedEntityInstances"
ENROLLMENTS == "enrollments"
EVENTS_JSON == "events.json"
TEIS_JSON == "trackedEntityInstances.json"
ENROLLMENTS_JSON == "enrollments.json"
EVENTS_ZIP == "events.zip"
TEIS_ZIP == "trackedEntityInstances.zip"
ENROLLMENTS_ZIP == "enrollments.zip"

\* file[name]: the bundle's property of that name, undefined for any other.
FileProperty(file, name) ==
    CASE name = "events" -> [defined |-> TRUE, value |-> file.events]
      [] name = "trackedEntityInstances" ->
            [defined |-> TRUE, value |-> file.trackedEntityInstances]
      [] name = "enrollments" -> [defined |-> TRUE, value |-> file.enrollments]
      [] OTHER -> [defined |-> FALSE, value |-> <<>>]

\* JSON.stringify({key: prop}): the object's key/value pairs; a property
\* whose value is undefined is left out.
JsonStringify(key, prop) ==
    IF prop.defined THEN <<[key |-> key, value |-> prop.value]>> ELSE <<>>

\* JSZip.file(name, data): the archive with that member added, or replaced
\* when it already holds one of that name.
JSZipFile(zip, name, data) ==
    IF \E i \in 1..Len(zip) : zip[i].name = name
    THEN [i \in 1..Len(zip) |->
            IF zip[i].name = name THEN [name |-> name, data |-> data] ELSE zip[i]]
    ELSE Append(zip, [name |-> name, data |-> data])

\* generateAsync({type: "blob", compression: "DEFLATE"}): the members the
\* archive holds when it is generated, deflated into one blob.
GenerateBlob(zip) == [type |-> "blob", compression |-> "DEFLATE", members |-> zip]

\* ------------------------------------------------------------ state

VARIABLES
    call,           \* the export called: its name and arguments
    pc,             \* where the call's promise chain stands
    requests,       \* every request issued, in the order of issue
    dataWrapper,    \* the EventDataWrapper being filled
    enrollsArray,   \* the enrollment uids held for getEnrollmentsByUid
    exportPromise,  \* the promise of export...WithDependencies
    files,          \* compressFileByElementType: the three inner archives
    zip,            \* compressFileByElementType: the outer archive
    zipPromise,     \* the promise of a zip variant
    reordered,      \* history: a response overtook an earlier request of its batch
    probe           \* a pure helper's arguments and result, checked on their own

pipeline == <<call, pc, requests, dataWrapper, enrollsArray, exportPromise,
              files, zip, zipPromise, reordered>>
vars == <<call, pc, requests, dataWrapper, enrollsArray, exportPromise,
          files, zip, zipPromise, reordered, probe>>

\* A rejection reason: the failure of the request at an index of `requests`,
\* or the failure of a generateAsync.
NoReason == [source |-> "none", index |-> 0]
RequestError(i) == [source |-> "request", index |-> i]
CompressionError == [source |-> "generateAsync", index |-> 0]

Pending == [state |-> "pending", reason |-> NoReason, value |-> <<>>]
NoPromise == [state |-> "none", reason |-> NoReason, value |-> <<>>]
Rejected(reason) == [state |-> "rejected", reason |-> reason, value |-> <<>>]
Resolved(value) == [state |-> "resolved", reason |-> NoReason, value |-> value]

FanoutBatches == {"events", "teisFromLast", "enrollsFromLast"}
ZipVariants ==
    {"exportEventsWithDependenciesInZip", "exportEventsFromLastWithDependenciesInZip"}
LastVariants ==
    {"exportEventsFromLastWithDependencies", "exportEventsFromLastWithDependenciesInZip"}

EmptyWrapper == EventDataWrapper(<<>>, <<>>, <<>>)
NoFiles == [events |-> <<>>, teis |-> <<>>, enrolls |-> <<>>]
NoProbe == [op |-> "none"]

Idle ==
    /\ call = [fn |-> "none", orgunits |-> <<>>, programs |-> NotSupplied]
    /\ pc = "idle"
    /\ requests = <<>>
    /\ dataWrapper = EmptyWrapper
    /\ enrollsArray = <<>>
    /\ exportPromise = NoPromise
    /\ files = NoFiles
    /\ zip = <<>>
    /\ zipPromise = NoPromise
    /\ reordered = FALSE

Init == Idle /\ probe = NoProbe

\* ------------------------------------------------------------ promise chain

\* The chain runs on a record s of the call's variables; each operator is
\* one callback, run to the point where it waits for the network again.

\* A plausible slip: the tracked-entity archive filled from the events.
compressFileByElementTypeCopied(s, file) ==
    [s EXCEPT
        !.zip = <<>>,
        !.files =
            [events |-> JSZipFile(<<>>, EVENTS_JSON,
                            JsonStringify("events", FileProperty(file, EVENTS))),
             teis |-> JSZipFile(<<>>, TEIS_JSON,
                            JsonStringify("trackedEntityInstances", FileProperty(file, EVENTS))),
             enrolls |-> JSZipFile(<<>>, ENROLLMENTS_JSON,
                            JsonStringify("enrollments", FileProperty(file, ENROLLMENTS)))],
        !.pc = "zipEvents"]

\* compressFileByElementType up to its first generateAsync.
compressFileByElementType(s, file) ==
    [s EXCEPT
        !.zip = <<>>,
        !.files =
            [events |-> JSZipFile(<<>>, EVENTS_JSON,
                            JsonStringify("events", FileProperty(file, EVENTS))),
             teis |-> JSZipFile(<<>>, TEIS_JSON,
                            JsonStringify("trackedEntityInstances", FileProperty(file, TEIS))),
             enrolls |-> JSZipFile(<<>>, ENROLLMENTS_JSON,
                            JsonStringify("enrollments", FileProperty(file, ENROLLMENTS)))],
        !.pc = "zipEvents"]

\* The last callback of addTrackedEntitiesAndEnrollments: the export
\* resolves to the wrapper.
AfterEnrollsByUid(s) ==
    [s EXCEPT
        !.dataWrapper =
            addEnrollments(@, CleanAll(BatchData(s.requests, "enrollsByUid"))),
        !.exportPromise = Resolved(<<>>),
        !.pc = "resolved"]

\* A plausible slip: an empty uid list is cut short without a promise that
\* resolves, so the callback chained on it never runs.
getEnrollmentsByUidCutShort(s, enrollUids) ==
    [s EXCEPT
        !.requests = @ \o [i \in 1..Len(enrollUids) |->
                NewRequest("enrollsByUid", "Enrollments", UidParams(enrollUids[i]))],
        !.pc = "enrollsByUid"]

\* One request per uid; $q.all of no promise resolves at once.
getEnrollmentsByUid(s, enrollUids) ==
    LET issued == [i \in 1..Len(enrollUids) |->
                     NewRequest("enrollsByUid", "Enrollments", UidParams(enrollUids[i]))]
        s1 == [s EXCEPT !.requests = @ \o issued, !.pc = "enrollsByUid"]
    IN  IF Len(enrollUids) = 0 THEN AfterEnrollsByUid(s1) ELSE s1

\* The first callback of addTrackedEntitiesAndEnrollments.
AfterTeisByUid(s) ==
    getEnrollmentsByUid(
        [s EXCEPT !.dataWrapper =
            addTrackedEntityInstances(@, CleanAll(BatchData(s.requests, "teisByUid")))],
        s.enrollsArray)

getTrackedEntityInstancesByUid(s, teisUids) ==
    LET issued == [i \in 1..Len(teisUids) |->
                     NewRequest("teisByUid", "TrackedEntityInstances", UidParams(teisUids[i]))]
        s1 == [s EXCEPT !.requests = @ \o issued, !.pc = "teisByUid"]
    IN  IF Len(teisUids) = 0 THEN AfterTeisByUid(s1) ELSE s1

\* A plausible slip: the two by-uid fetches started side by side instead of
\* one from the callback of the other.
addTrackedEntitiesAndEnrollmentsAtOnce(s, wrapper, teisArray, enrolls) ==
    getTrackedEntityInstancesByUid(
        [s EXCEPT
            !.dataWrapper = wrapper,
            !.enrollsArray = enrolls,
            !.requests = @ \o [i \in 1..Len(enrolls) |->
                NewRequest("enrollsByUid", "Enrollments", UidParams(enrolls[i]))]],
        teisArray)

addTrackedEntitiesAndEnrollments(s, wrapper, teisArray, enrolls) ==
    getTrackedEntityInstancesByUid(
        [s EXCEPT !.dataWrapper = wrapper, !.enrollsArray = enrolls], teisArray)

addRelatedTrackedEntitiesAndEnrollments(s, events) ==
    addTrackedEntitiesAndEnrollments(
        s, EventDataWrapper(events, <<>>, <<>>),
        extractEventsPropertyToArray(events, "trackedEntityInstance"),
        extractEventsPropertyToArray(events, "enrollment"))

addMissingTrackedEntitiesAndEnrollments(s, wrapper) ==
    LET relatedTeis == extractEventsPropertyToArray(wrapper.events, "trackedEntityInstance")
        relatedEnrolls == extractEventsPropertyToArray(wrapper.events, "enrollment")
        existingTeis == [i \in 1..Len(wrapper.trackedEntityInstances) |->
                            wrapper.trackedEntityInstances[i].trackedEntityInstance]
        existingEnrolls == [i \in 1..Len(wrapper.enrollments) |->
                            wrapper.enrollments[i].enrollment]
    IN  addTrackedEntitiesAndEnrollments(
            s, wrapper, Missing(relatedTeis, existingTeis),
            Missing(relatedEnrolls, existingEnrolls))

\* The callback on the fan-out: of getEvents in exportEventsWithDependencies,
\* of the $q.all of the three FromLast lists in exportEventsFromLastWithDependencies.
AfterFanout(s, fn) ==
    IF fn \in LastVariants
    THEN addMissingTrackedEntitiesAndEnrollments(
            s, EventDataWrapper(ConcatResults(BatchData(s.requests, "events")),
                                ConcatResults(BatchData(s.requests, "enrollsFromLast")),
                                ConcatResults(BatchData(s.requests, "teisFromLast"))))
    ELSE addRelatedTrackedEntitiesAndEnrollments(
            s, ConcatResults(BatchData(s.requests, "events")))

\* Every callback that is due runs: the chain goes on while the batch it
\* waits for is complete, and a zip variant compresses the resolved bundle.
Progress(s, fn) ==
    LET s1 == CASE s.pc = "fanout" /\ AllOk(s.requests, FanoutBatches) -> AfterFanout(s, fn)
                [] s.pc = "teisByUid" /\ AllOk(s.requests, {"teisByUid"}) -> AfterTeisByUid(s)
                [] s.pc = "enrollsByUid" /\ AllOk(s.requests, {"enrollsByUid"}) ->
                        AfterEnrollsByUid(s)
                [] OTHER -> s
    IN  IF s1.pc = "resolved" /\ fn \in ZipVariants
        THEN compressFileByElementType(s1, s1.dataWrapper)
        ELSE s1

\* getEventsFromOrgunitAndPrograms: one Events query per combination.
EventsRequests(commonParams, orgunits, programs) ==
    LET combo == getOrgunitProgramCombo(orgunits, programs)
    IN  [i \in 1..Len(combo) |->
            NewRequest("events", "Events", EventsQueryParams(commonParams, combo[i]))]

\* getTrackedEntityInstancesFromLast and getEnrollmentsFromLast.
TeisFromLastRequests(commonParams, orgunitProgramCombo) ==
    [i \in 1..Len(orgunitProgramCombo) |->
        NewRequest("teisFromLast", "TrackedEntityInstances",
                   EntityQueryParams(commonParams, orgunitProgramCombo[i]))]
EnrollsFromLastRequests(commonParams, orgunitProgramCombo) ==
    [i \in 1..Len(orgunitProgramCombo) |->
        NewRequest("enrollsFromLast", "Enrollments",
                   EntityQueryParams(commonParams, orgunitProgramCombo[i]))]

DatesParams == [startDate |-> StartDate, endDate |-> EndDate, ouMode |-> "DESCENDANTS"]
LastParams == [lastUpdated |-> LastUpdated, ouMode |-> "DESCENDANTS"]

\* The requests an export issues as it is called.
FanoutRequests(fn, orgunits, programs) ==
    IF fn \in LastVariants
    THEN LET orgunitProgramCombo == getOrgunitProgramCombo(orgunits, programs)
         IN  EventsRequests(LastParams, orgunits, programs)
             \o TeisFromLastRequests(LastParams, orgunitProgramCombo)
             \o EnrollsFromLastRequests(LastParams, orgunitProgramCombo)
    ELSE EventsRequests(DatesParams, orgunits, programs)

Started(fn, orgunits, programs) ==
    Progress([pc |-> "fanout",
              requests |-> FanoutRequests(fn, orgunits, programs),
              dataWrapper |-> EmptyWrapper,
              enrollsArray |-> <<>>,
              exportPromise |-> Pending,
              files |-> NoFiles,
              zip |-> <<>>,
              zipPromise |-> IF fn \in ZipVariants THEN Pending ELSE NoPromise], fn)

Current ==
    [pc |-> pc, requests |-> requests, dataWrapper |-> dataWrapper,
     enrollsArray |-> enrollsArray, exportPromise |-> exportPromise,
     files |-> files, zip |-> zip, zipPromise |-> zipPromise]

Becomes(s) ==
    /\ pc' = s.pc
    /\ requests' = s.requests
    /\ dataWrapper' = s.dataWrapper
    /\ enrollsArray' = s.enrollsArray
    /\ exportPromise' = s.exportPromise
    /\ files' = s.files
    /\ zip' = s.zip
    /\ zipPromise' = s.zipPromise

\* ------------------------------------------------------------ actions

Min(a, b) == IF a < b THEN a ELSE b
OrgunitLists ==
    {[i \in 1..n |-> [id |-> OrgunitIds[i]]] : n \in 0..Min(MaxOrgunits, Len(OrgunitIds))}
ProgramArgs ==
    {NotSupplied} \cup
    {Supplied([i \in 1..n |-> [id |-> ProgramIds[i]]]) :
        n \in 0..Min(MaxPrograms, Len(ProgramIds))}

\* An export is called: its fan-out requests are issued, and with none to
\* wait for the chain runs on at once.
Export(fn) ==
    /\ pc = "idle"
    /\ \E orgunits \in OrgunitLists, programs \in ProgramArgs :
        /\ Len(getOrgunitProgramCombo(orgunits, programs)) <= MaxQueries
        /\ call' = [fn |-> fn, orgunits |-> orgunits, programs |-> programs]
        /\ Becomes(Started(fn, orgunits, programs))
    /\ UNCHANGED <<reordered, probe>>

exportEventsWithDependencies == Export("exportEventsWithDependencies")
exportEventsFromLastWithDependencies == Export("exportEventsFromLastWithDependencies")
exportEventsWithDependenciesInZip == Export("exportEventsWithDependenciesInZip")
exportEventsFromLastWithDependenciesInZip ==
    Export("exportEventsFromLastWithDependenciesInZip")

\* What the server may answer to a request.
Responses(r) ==
    CASE r.batch = "events" -> EventsResponses
      [] r.batch = "teisFromLast" -> TeisResponses
      [] r.batch = "enrollsFromLast" -> EnrollsResponses
      [] r.batch = "teisByUid" -> TeiByUidResponses(r.params.uid)
      [] r.batch = "enrollsByUid" -> EnrollByUidResponses(r.params.uid)

Overtakes(i) ==
    \E j \in 1..(i - 1) :
        requests[j].batch = requests[i].batch /\ requests[j].status = "pending"

\* A request's promise resolves.  While the export is pending the answer
\* takes its place in the batch's results and the callbacks that are due
\* run; once the export is rejected the answer is dropped.
RequestSucceeds ==
    \E i \in 1..Len(requests) :
        /\ requests[i].status = "pending"
        /\ IF exportPromise.state = "pending"
           THEN \E data \in Responses(requests[i]) :
                    /\ Becomes(Progress(
                            [Current EXCEPT !.requests[i].status = "ok",
                                            !.requests[i].data = data], call.fn))
                    /\ reordered' = (reordered \/ Overtakes(i))
           ELSE /\ requests' = [requests EXCEPT ![i].status = "ok"]
                /\ UNCHANGED <<pc, dataWrapper, enrollsArray, exportPromise,
                               files, zip, zipPromise, reordered>>
        /\ UNCHANGED <<call, probe>>

\* A plausible slip: a failed request is swallowed, and the batch waits on.
RequestFailsSwallowed ==
    \E i \in 1..Len(requests) :
        /\ requests[i].status = "pending"
        /\ requests' = [requests EXCEPT ![i].status = "failed"]
        /\ UNCHANGED <<call, pc, dataWrapper, enrollsArray, exportPromise,
                       files, zip, zipPromise, reordered, probe>>

\* A request's promise is rejected: the $q.all it is in is rejected with its
\* reason, and so is every promise chained on it, and the results gathered
\* for the callbacks that will not run are dropped; a later failure finds
\* the promises rejected already.
RequestFails ==
    \E i \in 1..Len(requests) :
        /\ requests[i].status = "pending"
        /\ requests' = [j \in 1..Len(requests) |->
                            IF j = i THEN [requests[j] EXCEPT !.status = "failed"]
                            ELSE IF exportPromise.state = "pending"
                                 THEN [requests[j] EXCEPT !.data = <<>>]
                                 ELSE requests[j]]
        /\ IF exportPromise.state = "pending"
           THEN /\ exportPromise' = Rejected(RequestError(i))
                /\ zipPromise' = IF call.fn \in ZipVariants
                                 THEN Rejected(RequestError(i)) ELSE zipPromise
                /\ pc' = "rejected"
           ELSE UNCHANGED <<exportPromise, zipPromise, pc>>
        /\ UNCHANGED <<call, dataWrapper, enrollsArray, files, zip, reordered, probe>>

\* A generateAsync of compressFileByElementType resolves: its blob is filed
\* in the outer archive and the next archive is generated; the blob of the
\* outer archive is what the zip variant resolves to.
GenerateAsyncResolves ==
    /\ pc \in {"zipEvents", "zipTeis", "zipEnrolls", "zipOuter"}
    /\ CASE pc = "zipEvents" ->
                /\ zip' = JSZipFile(zip, EVENTS_ZIP, GenerateBlob(files.events))
                /\ pc' = "zipTeis"
                /\ UNCHANGED zipPromise
         [] pc = "zipTeis" ->
                /\ zip' = JSZipFile(zip, TEIS_ZIP, GenerateBlob(files.teis))
                /\ pc' = "zipEnrolls"
                /\ UNCHANGED zipPromise
         [] pc = "zipEnrolls" ->
                /\ zip' = JSZipFile(zip, ENROLLMENTS_ZIP, GenerateBlob(files.enrolls))
                /\ pc' = "zipOuter"
                /\ UNCHANGED zipPromise
         [] pc = "zipOuter" ->
                /\ zipPromise' = Resolved(GenerateBlob(zip))
                /\ pc' = "zipped"
                /\ UNCHANGED zip
    /\ UNCHANGED <<call, requests, dataWrapper, enrollsArray, exportPromise,
                   files, reordered, probe>>

\* A generateAsync fails: the zip variant is rejected.
GenerateAsyncFails ==
    /\ pc \in {"zipEvents", "zipTeis", "zipEnrolls", "zipOuter"}
    /\ zipPromise' = Rejected(CompressionError)
    /\ pc' = "zipFailed"
    /\ UNCHANGED <<call, requests, dataWrapper, enrollsArray, exportPromise,
                   files, zip, reordered, probe>>

Next ==
    \/ exportEventsWithDependencies
    \/ exportEventsFromLastWithDependencies
    \/ exportEventsWithDependenciesInZip
    \/ exportEventsFromLastWithDependenciesInZip
    \/ RequestSucceeds
    \/ RequestFails
    \/ GenerateAsyncResolves
    \/ GenerateAsyncFails

Spec == Init /\ [][Next]_vars

\* ------------------------------------------------------------ pure helpers

\* getOrgunitProgramCombo on its own: any org-unit list and program list.
ComboArguments ==
    {[op |-> "getOrgunitProgramCombo", orgunits |-> o, programs |-> p,
      done |-> FALSE, result |-> <<>>] :
        o \in SeqsUpTo(Orgunit, MaxComboOrgunits),
        p \in {NotSupplied} \cup {Supplied(l) : l \in SeqsUpTo(Program, MaxComboPrograms)}}

InitCombo == Idle /\ probe \in ComboArguments

ApplyCombo ==
    /\ probe.op = "getOrgunitProgramCombo"
    /\ ~ probe.done
    /\ probe' = [probe EXCEPT
                    !.done = TRUE,
                    !.result = getOrgunitProgramCombo(probe.orgunits, probe.programs)]
    /\ UNCHANGED pipeline

SpecCombo == InitCombo /\ [][ApplyCombo]_vars

\* extractEventsPropertyToArray on its own: any event list, either property.
Event ==
    [trackedEntityInstance : {Undefined, Null} \cup TeiIds,
     enrollment : {Undefined, Null} \cup EnrollIds]

ExtractArguments ==
    {[op |-> "extractEventsPropertyToArray", events |-> e, property |-> f,
      done |-> FALSE, result |-> <<>>] :
        e \in SeqsUpTo(Event, MaxExtractEvents),
        f \in {"trackedEntityInstance", "enrollment"}}

InitExtract == Idle /\ probe \in ExtractArguments

ApplyExtract ==
    /\ probe.op = "extractEventsPropertyToArray"
    /\ ~ probe.done
    /\ probe' = [probe EXCEPT
                    !.done = TRUE,
                    !.result = extractEventsPropertyToArray(probe.events, probe.property)]
    /\ UNCHANGED pipeline

SpecExtract == InitExtract /\ [][ApplyExtract]_vars

\* ------------------------------------------------------------ claims

IsIdentifier(v) == v \notin {Undefined, Null}

\* The values of a list that are identifiers, each once, in the order of
\* their first occurrence.
FirstOccurrences(values) ==
    LET keep == {i \in 1..Len(values) :
                    /\ IsIdentifier(values[i])
                    /\ \A j \in 1..(i - 1) : values[j] # values[i]}
        RECURSIVE take(_)
        take(i) == IF i > Len(values) THEN <<>>
                   ELSE IF i \in keep THEN <<values[i]>> \o take(i + 1)
                   ELSE take(i + 1)
    IN  take(1)

\* C1: extractEventsPropertyToArray(E, f) is the list of the distinct
\* non-null values of f over E, each once, in the order of first occurrence;
\* an event whose f is null or absent contributes nothing.
C1_ExtractsDistinctNonNull ==
    (probe.op = "extractEventsPropertyToArray" /\ probe.done) =>
        probe.result =
            FirstOccurrences([i \in 1..Len(probe.events) |->
                                EventProperty(probe.events[i], probe.property)])

\* C8: getOrgunitProgramCombo(O, P) has |O| items when P is empty or not
\* supplied and |O| x |P| otherwise, and holds the pair of the i-th org-unit
\* and the j-th program at place (i - 1) x |P| + j: each pair once,
\* org-unit-major and program-minor in input order.
C8_ComboIsOrderedCrossProduct ==
    (probe.op = "getOrgunitProgramCombo" /\ probe.done) =>
        LET O == probe.orgunits
            P == probe.programs.list
            combo == probe.result
        IN  IF Len(P) = 0
            THEN /\ Len(combo) = Len(O)
                 /\ \A i \in 1..Len(O) :
                        combo[i] = [orgUnit |-> O[i].id, program |-> Undefined]
            ELSE /\ Len(combo) = Len(O) * Len(P)
                 /\ \A i \in 1..Len(O) : \A j \in 1..Len(P) :
                        combo[(i - 1) * Len(P) + j] =
                            [orgUnit |-> O[i].id, program |-> P[j].id]

\* C8's case: two org-units or more crossed with two different programs.
C8_Witness ==
    /\ probe.op = "getOrgunitProgramCombo"
    /\ probe.done
    /\ Len(probe.orgunits) >= 2
    /\ probe.orgunits[1] # probe.orgunits[2]
    /\ probe.programs.supplied
    /\ Len(probe.programs.list) = 2
    /\ probe.programs.list[1] # probe.programs.list[2]
    /\ Len(probe.result) = 2 * Len(probe.orgunits)


\* The export has got past its fan-out and has not been rejected.
PastFanout == exportPromise.state \in {"pending", "resolved"} /\ pc \notin {"idle", "fanout"}

TeiIdsOf(list) == [i \in 1..Len(list) |-> list[i].trackedEntityInstance]
EnrollIdsOf(list) == [i \in 1..Len(list) |-> list[i].enrollment]
NoRepeats(ids) == \A i, j \in 1..Len(ids) : i # j => ids[i] # ids[j]

\* What the lastUpdated fan-out fetched, as the answers came in.
FetchedFromLast(batch) ==
    {r.data[1] : r \in {q \in Range(requests) : q.batch = batch /\ q.data # <<>>}}
\* The uids requested one by one, in the order of the requests.
RequestedUids(batch) ==
    LET b == Batch(requests, batch) IN [i \in 1..Len(b) |-> b[i].params.uid]

\* C2: in the bundle an export resolves to, no two tracked entity instances
\* share a trackedEntityInstance id and no two enrollments an enrollment id.
C2_NoEntityTwice ==
    exportPromise.state = "resolved" =>
        /\ NoRepeats(TeiIdsOf(dataWrapper.trackedEntityInstances))
        /\ NoRepeats(EnrollIdsOf(dataWrapper.enrollments))

\* C3: in the bundle an export resolves to, every identifier an event refers
\* to has its entity in the bundle's collection, and every entity the
\* lastUpdated fan-out fetched is still in it.
C3_BundleIsUnion ==
    exportPromise.state = "resolved" =>
        /\ \A i \in 1..Len(dataWrapper.events) :
            /\ IsIdentifier(dataWrapper.events[i].trackedEntityInstance) =>
                    dataWrapper.events[i].trackedEntityInstance
                        \in Range(TeiIdsOf(dataWrapper.trackedEntityInstances))
            /\ IsIdentifier(dataWrapper.events[i].enrollment) =>
                    dataWrapper.events[i].enrollment
                        \in Range(EnrollIdsOf(dataWrapper.enrollments))
        /\ FetchedFromLast("teisFromLast") \subseteq Range(dataWrapper.trackedEntityInstances)
        /\ FetchedFromLast("enrollsFromLast") \subseteq Range(dataWrapper.enrollments)

\* C3's case: a bundle that holds an enrollment of the fan-out no event
\* refers to, beside entities fetched by uid for the events.
C3_Witness ==
    /\ exportPromise.state = "resolved"
    /\ FetchedFromLast("enrollsFromLast") # {}
    /\ \A i \in 1..Len(dataWrapper.events) :
            ~ IsIdentifier(dataWrapper.events[i].enrollment)
    /\ Len(Batch(requests, "teisByUid")) = 2
    /\ \A i \in 1..Len(requests) : requests[i].status = "ok"

\* C4: in addMissingTrackedEntitiesAndEnrollments the identifiers requested
\* by uid are those extracted from the bundle's events that the bundle's
\* collection does not hold, in the order of the extracted list, and none of
\* them is in the bundle; for tracked entities and for enrollments alike.
IsDifference(requested, extracted, existing) ==
    /\ Range(requested) = Range(extracted) \ existing
    /\ Range(requested) \cap existing = {}
    /\ NoRepeats(requested)
    /\ \A i, j \in 1..Len(requested) : i < j =>
            \E k, l \in 1..Len(extracted) :
                k < l /\ extracted[k] = requested[i] /\ extracted[l] = requested[j]

C4_MissingIsDifference ==
    (PastFanout /\ call.fn \in LastVariants) =>
        /\ IsDifference(
                RequestedUids("teisByUid"),
                extractEventsPropertyToArray(dataWrapper.events, "trackedEntityInstance"),
                {e.trackedEntityInstance : e \in FetchedFromLast("teisFromLast")})
        /\ IsDifference(
                IF pc = "teisByUid" THEN enrollsArray ELSE RequestedUids("enrollsByUid"),
                extractEventsPropertyToArray(dataWrapper.events, "enrollment"),
                {e.enrollment : e \in FetchedFromLast("enrollsFromLast")})

\* C4's case: the events refer to two tracked entities, t2 before t1, the
\* bundle holds t1 already, and t2 alone is requested.
C4_Witness ==
    /\ PastFanout
    /\ call.fn \in LastVariants
    /\ extractEventsPropertyToArray(dataWrapper.events, "trackedEntityInstance")
            = <<"t2", "t1">>
    /\ FetchedFromLast("teisFromLast") = {TeiEntity("t1")}
    /\ RequestedUids("teisByUid") = <<"t2">>

\* C5: once a request of an export has failed, the export's promise, and
\* that of its zip variant, is rejected with the failure of a request that
\* failed, whatever became of the other requests; it is not resolved.
C5_FailureRejectsExport ==
    (\E i \in 1..Len(requests) : requests[i].status = "failed") =>
        /\ exportPromise.state = "rejected"
        /\ exportPromise.reason.source = "request"
        /\ exportPromise.reason.index \in 1..Len(requests)
        /\ requests[exportPromise.reason.index].status = "failed"
        /\ call.fn \in ZipVariants => zipPromise = exportPromise
        /\ call.fn \notin ZipVariants => zipPromise.state = "none"
        /\ files = NoFiles

\* C5's case: one request failed and every other one went well.
C5_Witness ==
    /\ Len(requests) >= 2
    /\ Cardinality({i \in 1..Len(requests) : requests[i].status = "failed"}) = 1
    /\ \A i \in 1..Len(requests) : requests[i].status # "pending"
    /\ exportPromise.state = "rejected"

\* C6: the events of the bundle are the sub-results of the event queries
\* put end to end in the order of the combination list, with nothing
\* dropped, whatever the order the answers came in; so are the tracked
\* entities and the enrollments of the lastUpdated fan-out.
C6_ConcatInGenerationOrder ==
    PastFanout =>
        LET combo == getOrgunitProgramCombo(call.orgunits, call.programs)
            ev == Batch(requests, "events")
            te == Batch(requests, "teisFromLast")
            en == Batch(requests, "enrollsFromLast")
        IN  /\ Len(ev) = Len(combo)
            /\ \A i \in 1..Len(combo) :
                    /\ ev[i].params.orgUnit = combo[i].orgUnit
                    /\ ev[i].params.program = combo[i].program
            /\ dataWrapper.events = Flatten([i \in 1..Len(combo) |-> ev[i].data])
            /\ call.fn \in LastVariants =>
                /\ Len(te) = Len(combo) /\ Len(en) = Len(combo)
                /\ \A i \in 1..Len(combo) :
                        /\ te[i].params.ou = combo[i].orgUnit
                        /\ te[i].params.program = combo[i].program
                        /\ en[i].params.ou = combo[i].orgUnit
                        /\ en[i].params.program = combo[i].program
                /\ LET fetchedTeis == Flatten([i \in 1..Len(combo) |-> te[i].data])
                       fetchedEnrolls == Flatten([i \in 1..Len(combo) |-> en[i].data])
                   IN  /\ Len(fetchedTeis) <= Len(dataWrapper.trackedEntityInstances)
                       /\ SubSeq(dataWrapper.trackedEntityInstances, 1, Len(fetchedTeis))
                            = fetchedTeis
                       /\ pc # "teisByUid" => 
                            /\ Len(fetchedEnrolls) <= Len(dataWrapper.enrollments)
                            /\ SubSeq(dataWrapper.enrollments, 1, Len(fetchedEnrolls))
                                = fetchedEnrolls

\* C6's case: the second event query answered before the first, with
\* another event, and the export resolved.
C6_Witness ==
    /\ call.fn = "exportEventsWithDependencies"
    /\ exportPromise.state = "resolved"
    /\ reordered
    /\ Len(Batch(requests, "teisByUid")) <= 1
    /\ Len(Batch(requests, "enrollsByUid")) <= 1
    /\ Len(dataWrapper.events) = 2
    /\ dataWrapper.events[1] # dataWrapper.events[2]


\* The time filter and the mode every fan-out query carries.
CarriesCommonParams(params) ==
    /\ params.ouMode = "DESCENDANTS"
    /\ params.uid = Undefined
    /\ IF call.fn \in LastVariants
       THEN /\ params.lastUpdated = LastUpdated
            /\ params.startDate = Undefined
            /\ params.endDate = Undefined
       ELSE /\ params.startDate = StartDate
            /\ params.endDate = EndDate
            /\ params.lastUpdated = Undefined

C9_EmptyStepsResolveEmpty ==
    /\ (pc # "idle" /\ call.orgunits = <<>>) =>
            /\ requests = <<>>
            /\ exportPromise.state = "resolved"
            /\ dataWrapper = EmptyWrapper
    /\ pc = "fanout" => Batch(requests, "events") # <<>>
    /\ pc = "teisByUid" => Batch(requests, "teisByUid") # <<>>
    /\ pc = "enrollsByUid" => Batch(requests, "enrollsByUid") # <<>>
    /\ PastFanout =>
            /\ (\A i \in 1..Len(dataWrapper.events) :
                    dataWrapper.events[i].trackedEntityInstance = Undefined)
                => Batch(requests, "teisByUid") = <<>>
            /\ (\A i \in 1..Len(dataWrapper.events) :
                    dataWrapper.events[i].enrollment = Undefined)
                => Batch(requests, "enrollsByUid") = <<>>
    /\ exportPromise.state = "resolved" =>
            /\ Len(dataWrapper.trackedEntityInstances) =
                    Cardinality({i \in 1..Len(requests) :
                        requests[i].batch \in {"teisFromLast", "teisByUid"}
                        /\ requests[i].data # <<>>})
            /\ Len(dataWrapper.enrollments) =
                    Cardinality({i \in 1..Len(requests) :
                        requests[i].batch \in {"enrollsFromLast", "enrollsByUid"}
                        /\ requests[i].data # <<>>})

\* C9's case: an export called with no org-unit: no query, no identifier to
\* fetch for either entity type, and the export resolved all the same.
C9_Witness ==
    /\ pc # "idle"
    /\ call.orgunits = <<>>
    /\ requests = <<>>
    /\ exportPromise.state = "resolved"
    /\ dataWrapper = EmptyWrapper

\* The member of the outer archive for one collection: an archive of one
\* JSON object with one key, whose value is the collection.
ArchiveOf(zipName, jsonName, key, array) ==
    [name |-> zipName,
     data |-> [type |-> "blob", compression |-> "DEFLATE",
               members |-> <<[name |-> jsonName,
                              data |-> <<[key |-> key, value |-> array]>>]>>]]

\* C10: the blob a zip variant resolves to is an archive of exactly three
\* members, the events, tracked-entity and enrollment archives, each holding
\* one JSON object {events: ...}, {trackedEntityInstances: ...} or
\* {enrollments: ...} with the bundle's array; and the outer archive is
\* generated only when the three members are in it.
C10_ArchiveOfThreeArchives ==
    /\ zipPromise.state = "resolved" =>
            /\ zipPromise.value.type = "blob"
            /\ Len(zipPromise.value.members) = 3
            /\ Range(zipPromise.value.members) =
                    {ArchiveOf(EVENTS_ZIP, EVENTS_JSON, "events", dataWrapper.events),
                     ArchiveOf(TEIS_ZIP, TEIS_JSON, "trackedEntityInstances",
                               dataWrapper.trackedEntityInstances),
                     ArchiveOf(ENROLLMENTS_ZIP, ENROLLMENTS_JSON, "enrollments",
                               dataWrapper.enrollments)}
    /\ pc = "zipOuter" =>
            {zip[i].name : i \in 1..Len(zip)} = {EVENTS_ZIP, TEIS_ZIP, ENROLLMENTS_ZIP}

\* C10's case: the archive of a bundle with events, a tracked entity and an
\* enrollment.
C10_Witness ==
    /\ zipPromise.state = "resolved"
    /\ Len(dataWrapper.events) = 2
    /\ dataWrapper.trackedEntityInstances # <<>>
    /\ dataWrapper.enrollments # <<>>

\* The requests of a stage of the call: the fan-out, the tracked entities by
\* uid, the enrollments by uid.
StageRequests(batches) == {i \in 1..Len(requests) : requests[i].batch \in batches}
AllResolved(batches) == \A i \in StageRequests(batches) : requests[i].status = "ok"

\* C11: the requests of a call are staged.  A by-uid request is issued only
\* when every fan-out query of the call has resolved, and a by-uid
\* enrollment request only when every by-uid tracked-entity request has
\* resolved; so with a failed request in a stage no request of a later
\* stage is issued.
C11_RequestsAreStaged ==
    /\ StageRequests({"teisByUid", "enrollsByUid"}) # {} => AllResolved(FanoutBatches)
    /\ StageRequests({"enrollsByUid"}) # {} => AllResolved({"teisByUid"})
    /\ (\E i \in StageRequests(FanoutBatches) : requests[i].status = "failed") =>
            StageRequests({"teisByUid", "enrollsByUid"}) = {}
    /\ (\E i \in StageRequests({"teisByUid"}) : requests[i].status = "failed") =>
            StageRequests({"enrollsByUid"}) = {}

\* The same over each step: a step that issues requests of a later stage
\* leaves every request of the earlier stages resolved.
C11_IssuedOnlyWhenResolved ==
    [][/\ (\E i \in (Len(requests) + 1)..Len(requests') :
                requests'[i].batch \in {"teisByUid", "enrollsByUid"})
            => \A j \in 1..Len(requests') :
                    requests'[j].batch \in FanoutBatches => requests'[j].status = "ok"
       /\ (\E i \in (Len(requests) + 1)..Len(requests') :
                requests'[i].batch = "enrollsByUid")
            => \A j \in 1..Len(requests') :
                    requests'[j].batch = "teisByUid" => requests'[j].status = "ok"]_vars

\* C11's case: the three stages of a lastUpdated export one after the
\* other: six fan-out queries and two by-uid tracked-entity requests
\* resolved, and an enrollment request in flight.
C11_Witness ==
    /\ call.fn \in LastVariants
    /\ Cardinality(StageRequests(FanoutBatches)) = 6
    /\ Cardinality(StageRequests({"teisByUid"})) = 2
    /\ StageRequests({"enrollsByUid"}) # {}
    /\ \E i \in StageRequests({"enrollsByUid"}) : requests[i].status = "pending"

====
